---- MODULE Spec2Model ----
(***************************************************************************)
(* Expense splitting server of chousei-warikan: the HTTP handlers of       *)
(* server/routes.ts over DatabaseStorage (server/storage.ts), and the      *)
(* settlement function calculateSettlements.                               *)
(*                                                                         *)
(* Money is kept in hundredths of a currency unit: the request's number is *)
(* stored as String(amount) in a numeric(10,2) column and read back with   *)
(* parseInt, which keeps the whole units only.                             *)
(***************************************************************************)
EXTENDS Integers, Sequences, FiniteSets, TLC

VARIABLES
  events,       \* the events table: id -> row
  attendances,  \* the attendances table: rows (eventId, name)
  expenses,     \* the expenses table: rows
  nextId,       \* the next unused expense id (nanoid never repeats)
  req,          \* the request being answered
  res,          \* its response
  joined,       \* history: per expense id, the names added to its event by
                \* POST participants (answered 200) since the expense was stored
  added,        \* history: the (event, name) pairs POST participants answered 200
                \* for since the last DELETE of an expense was carried out
  calls,        \* the handlers in flight, each at one of its awaits
  initial,      \* history: the expenses table when the handlers in flight started
  loop          \* calculateSettlements stopped inside its matching loop

vars == <<events, attendances, expenses, nextId, req, res, joined, added, calls, initial, loop>>

-----------------------------------------------------------------------------
(* Bounds and input sets                                                   *)

MaxExpenses == 2
MaxCalcExpenses == 2

Names == {"A", "B", "C"}
EventIds == {"e1"}
ExpenseIds == 1..MaxExpenses
CreatorInputs == {"A", ""}
NameInputs == Names \cup {""}
\* the request's participants field: absent, or an array of names
Omitted == [given |-> FALSE, list |-> <<>>]
Given(list) == [given |-> TRUE, list |-> list]
MemberInputs == {Omitted, Given(<<>>), Given(<<"A", "B">>)}
\* request bodies of POST expenses: the well-formed ones, and one per validation rule
ExpenseInputs ==
  [payerName : {"A", "C"}, description : {"meal"}, amount : {400}, participants : MemberInputs]
  \cup {[payerName |-> "", description |-> "meal", amount |-> 400, participants |-> Omitted],
        [payerName |-> "A", description |-> "", amount |-> 400, participants |-> Omitted],
        [payerName |-> "A", description |-> "meal", amount |-> 0, participants |-> Given(<<>>)],
        [payerName |-> "A", description |-> "meal", amount |-> -100, participants |-> Omitted]}
DateOptionInputs == {"d1", "dX"}
AttendeeInputs == {"B", ""}
InitialAttendeeInputs == {<<>>, <<"B">>}

Null == "null"

-----------------------------------------------------------------------------
(* JavaScript containers                                                   *)

Range(s) == {s[i] : i \in 1..Len(s)}

\* Set.prototype.add on an insertion-ordered Set, kept as a duplicate-free list
SetAddTwice(s, x) == Append(s, x)

\* Set.prototype.add on a Set kept in insertion order
SetAdd(s, x) == IF x \in Range(s) THEN s ELSE Append(s, x)

RECURSIVE SetAddAll(_, _)
SetAddAll(s, xs) ==
  IF xs = <<>> THEN s ELSE SetAddAll(SetAdd(s, Head(xs)), Tail(xs))

\* The rows of an unordered SELECT: any enumeration of the stored rows
Orders(S) ==
  {o \in [1..Cardinality(S) -> S] : \A i, j \in 1..Cardinality(S) : o[i] = o[j] => i = j}

RECURSIVE SumSeq(_)
SumSeq(s) == IF s = <<>> THEN 0 ELSE Head(s) + SumSeq(Tail(s))

MinAsMax(a, b) == IF a <= b THEN b ELSE a

\* Math.min
Min(a, b) == IF a <= b THEN a ELSE b

-----------------------------------------------------------------------------
(* calculateSettlements                                                    *)

\* parseInt(expense.amount, 10) of the stored numeric(10,2) text
ParseInt(amount) == IF amount >= 0 THEN amount \div 100 ELSE -((-amount) \div 100)

RECURSIVE CollectMembersOnly(_, _)
CollectMembersOnly(acc, list) ==
  IF list = <<>> THEN acc
  ELSE CollectMembersOnly(SetAddAll(acc, Head(list).participants), Tail(list))

\* Step 1: every payer, and the listed members of every expense
RECURSIVE CollectParticipants(_, _)
CollectParticipants(acc, list) ==
  IF list = <<>> THEN acc
  ELSE LET e == Head(list)
           a1 == SetAdd(acc, e.payerName)
           a2 == IF Len(e.participants) > 0 THEN SetAddAll(a1, e.participants) ELSE a1
       IN CollectParticipants(a2, Tail(list))

AllCurrentParticipants(list) == CollectParticipants(<<>>, list)

SplitParticipantsStored(e, all) ==
  IF Len(e.participants) > 0 THEN e.participants ELSE all

\* Step 3: who shares one expense
SplitParticipants(e, all) ==
  IF e.isSharedWithAll = TRUE THEN all
  ELSE IF Len(e.participants) > 0 THEN e.participants
  ELSE all

\* Step 2: the names that get a balanceSheet entry
BalanceSheetKeys(list) == Range(AllCurrentParticipants(list))

\* Step 3 reads balanceSheet[payerName].paid and balanceSheet[person].shouldPay:
\* a name without an entry makes it throw a TypeError
Throws(list) ==
  \E i \in 1..Len(list) :
    \/ list[i].payerName \notin BalanceSheetKeys(list)
    \/ \E person \in Range(SplitParticipants(list[i], AllCurrentParticipants(list))) :
         person \notin BalanceSheetKeys(list)

PerPersonAmount(amount, n) == amount \div n

Remainder(amount, n) == amount - PerPersonAmount(amount, n) * n

PersonShareNoRemainder(amount, n, k) == PerPersonAmount(amount, n)

PersonShareExtraToLast(amount, n, k) ==
  IF k > n - Remainder(amount, n) THEN PerPersonAmount(amount, n) + 1
  ELSE PerPersonAmount(amount, n)

\* share of the member at (1-based) position k of a split group of n
PersonShare(amount, n, k) ==
  IF k - 1 < Remainder(amount, n) THEN PerPersonAmount(amount, n) + 1
  ELSE PerPersonAmount(amount, n)

\* what expense e adds to name's shouldPay
ExpenseShare(e, all, name) ==
  LET split == SplitParticipants(e, all)
      n == Len(split)
  IN SumSeq([k \in 1..n |->
       IF split[k] = name THEN PersonShare(ParseInt(e.amount), n, k) ELSE 0])

Paid(list, name) ==
  SumSeq([i \in 1..Len(list) |->
    IF list[i].payerName = name THEN ParseInt(list[i].amount) ELSE 0])

ShouldPay(list, name) ==
  LET all == AllCurrentParticipants(list)
  IN SumSeq([i \in 1..Len(list) |-> ExpenseShare(list[i], all, name)])

\* Step 4: balance of every participant, in the order of allCurrentParticipants
FinalBalances(list) ==
  LET all == AllCurrentParticipants(list)
  IN [i \in 1..Len(all) |->
       [name |-> all[i], amount |-> Paid(list, all[i]) - ShouldPay(list, all[i])]]

RECURSIVE FilterSeqOverOne(_, _)
FilterSeqOverOne(s, sign) ==
  IF s = <<>> THEN <<>>
  ELSE IF Head(s).amount * sign > 1
       THEN <<[name |-> Head(s).name, amount |-> Head(s).amount * sign]>>
              \o FilterSeqOverOne(Tail(s), sign)
       ELSE FilterSeqOverOne(Tail(s), sign)

RECURSIVE FilterSeq(_, _)
FilterSeq(s, sign) ==
  IF s = <<>> THEN <<>>
  ELSE IF Head(s).amount * sign > 0
       THEN <<[name |-> Head(s).name, amount |-> Head(s).amount * sign]>> \o FilterSeq(Tail(s), sign)
       ELSE FilterSeq(Tail(s), sign)

\* Array.prototype.sort((a, b) => b.amount - a.amount): stable, largest first
RECURSIVE InsertDesc(_, _)
InsertDesc(sorted, x) ==
  IF sorted = <<>> THEN <<x>>
  ELSE IF Head(sorted).amount >= x.amount
       THEN <<Head(sorted)>> \o InsertDesc(Tail(sorted), x)
       ELSE <<x>> \o sorted

RECURSIVE SortDesc(_)
SortDesc(s) ==
  IF s = <<>> THEN <<>>
  ELSE InsertDesc(SortDesc(SubSeq(s, 1, Len(s) - 1)), s[Len(s)])

\* Step 5
Receivers(list) == SortDesc(FilterSeq(FinalBalances(list), 1))

PayersFromCreditors(list) == SortDesc(FilterSeq(FinalBalances(list), 1))

Payers(list) == SortDesc(FilterSeq(FinalBalances(list), -1))

TotalReceive(list) ==
  LET receivers == Receivers(list)
  IN SumSeq([i \in 1..Len(receivers) |-> receivers[i].amount])

TotalPay(list) ==
  LET payers == Payers(list)
  IN SumSeq([i \in 1..Len(payers) |-> payers[i].amount])

\* Step 6: the matching loop
RECURSIVE Match(_, _, _)
Match(payers, receivers, settlements) ==
  IF payers = <<>> \/ receivers = <<>> THEN settlements
  ELSE LET payer == Head(payers)
           receiver == Head(receivers)
           paymentAmount == Min(payer.amount, receiver.amount)
       IN IF paymentAmount > 0
          THEN Match(
                 IF payer.amount - paymentAmount <= 0 THEN Tail(payers)
                 ELSE <<[payer EXCEPT !.amount = @ - paymentAmount]>> \o Tail(payers),
                 IF receiver.amount - paymentAmount <= 0 THEN Tail(receivers)
                 ELSE <<[receiver EXCEPT !.amount = @ - paymentAmount]>> \o Tail(receivers),
                 Append(settlements,
                        [from |-> payer.name, to |-> receiver.name, amount |-> paymentAmount]))
          ELSE settlements

CalculateSettlements(list) ==
  IF Len(list) = 0 THEN <<>>
  ELSE Match(Payers(list), Receivers(list), <<>>)

-----------------------------------------------------------------------------
(* DatabaseStorage                                                         *)

EventExpenses(eventId) == {x \in expenses : x.eventId = eventId}

EventAttendances(eventId) == {a \in attendances : a.eventId = eventId}

RECURSIVE AddPayers(_, _)
AddPayers(acc, list) ==
  IF list = <<>> THEN acc
  ELSE AddPayers(IF Head(list).payerName # "" THEN SetAdd(acc, Head(list).payerName) ELSE acc,
                 Tail(list))

RECURSIVE AddMembers(_, _)
AddMembers(acc, list) ==
  IF list = <<>> THEN acc
  ELSE AddMembers(SetAddAll(acc, Head(list).participants), Tail(list))

RECURSIVE AddAttendees(_, _)
AddAttendees(acc, list) ==
  IF list = <<>> THEN acc
  ELSE AddAttendees(SetAdd(acc, Head(list).name), Tail(list))

AddCreatorForgotten(acc, eventId) == acc

\* 3. the event's creator
AddCreator(acc, eventId) ==
  IF eventId \in DOMAIN events /\ events[eventId].creatorName # ""
  THEN SetAdd(acc, events[eventId].creatorName)
  ELSE acc

\* getEventParticipants, given the rows as the two SELECTs returned them
GetEventParticipants(eventId, eventExpenses, eventAttendances) ==
  AddCreator(
    AddAttendees(AddMembers(AddPayers(<<>>, eventExpenses), eventExpenses), eventAttendances),
    eventId)

\* the participant list an event may carry in MemStorage: a list returned and
\* saved by an earlier call, or none
PersistedInputs == {<<>>, <<"C">>, <<"A", "B">>}

\* one expense in MemStorage's walk: the payer, then the listed members
AddPayerAndMembers(acc, x) ==
  LET withPayer == IF x.payerName # "" THEN SetAdd(acc, x.payerName) ELSE acc
      members == SelectSeq(x.participants, LAMBDA n : n # "")
  IN SetAddAll(withPayer, members)

RECURSIVE AddExpenseNames(_, _)
AddExpenseNames(acc, list) ==
  IF list = <<>> THEN acc
  ELSE AddExpenseNames(AddPayerAndMembers(acc, Head(list)), Tail(list))

\* MemStorage.getEventParticipants (the list it returns; it also saves it on the event)
MemGetEventParticipants(eventId, existingParticipants, eventExpenses, eventAttendances) ==
  LET withCreator == AddCreator(<<>>, eventId)
      withExisting == SetAddAll(withCreator, existingParticipants)
      named == SelectSeq(eventAttendances, LAMBDA a : a.name # "")
      withAttendees == AddAttendees(withExisting, named)
  IN AddExpenseNames(withAttendees, eventExpenses)

\* the names getEventParticipants resolves, whatever the row order
ResolvedParticipants(eventId) ==
  Range(GetEventParticipants(eventId,
          CHOOSE o \in Orders(EventExpenses(eventId)) : TRUE,
          CHOOSE o \in Orders(EventAttendances(eventId)) : TRUE))

-----------------------------------------------------------------------------
(* Requests and responses                                                  *)

NoRequest ==
  [op |-> "none", eventId |-> "", creatorName |-> "", attendees |-> <<>>,
   dateOptionId |-> "", name |-> "", payerName |-> "", description |-> "",
   amount |-> 0, participants |-> Omitted, expenseId |-> 0]

NoResponse ==
  [status |-> 0, error |-> "", expenseId |-> 0, read |-> <<>>, settlements |-> <<>>,
   sharedExpensesUpdated |-> 0]

\* no run of calculateSettlements is under way
NoLoop == [pc |-> "idle", list |-> <<>>, payers |-> <<>>, receivers |-> <<>>, settlements |-> <<>>]

Reply(status, error) == [NoResponse EXCEPT !.status = status, !.error = error]

\* z.array(z.string()).default([]): an absent field parses to the empty array
ZodDefault(p) == IF p.given THEN p.list ELSE <<>>

\* the zod schema of POST expenses
ExpenseBodyValidAmountUnchecked(r) ==
  /\ r.payerName # ""
  /\ r.description # ""

ExpenseBodyValid(r) ==
  /\ r.payerName # ""
  /\ r.description # ""
  /\ r.amount > 0

\* "if (!participants || participants.length === 0)": split among everybody
SharedWithAllNever(participants) == FALSE

SharedWithAllRequested(participants) == Len(participants) = 0

FinalizedAlways(eventId) == TRUE

\* !!event.selectedDate
Finalized(eventId) == events[eventId].selectedDate # Null

AlreadyRegisteredNever(currentParticipants, name) == FALSE

\* currentParticipants.includes(name)
AlreadyRegistered(currentParticipants, name) == name \in Range(currentParticipants)

NewParticipantsListStale(currentParticipants, name) == currentParticipants

\* [...currentParticipants, name]
NewParticipantsList(currentParticipants, name) == Append(currentParticipants, name)

Init ==
  /\ events = <<>>
  /\ attendances = {}
  /\ expenses = {}
  /\ nextId = 1
  /\ req = NoRequest
  /\ res = NoResponse
  /\ joined = [i \in ExpenseIds |-> {}]
  /\ added = {}
  /\ calls = <<>>
  /\ initial = {}
  /\ loop = NoLoop

-----------------------------------------------------------------------------
(* Handlers                                                                *)

\* POST /api/events
CreateEvent(eventId, creatorName, attendees) ==
  /\ eventId \notin DOMAIN events
  /\ req' = [NoRequest EXCEPT !.op = "createEvent", !.eventId = eventId,
                              !.creatorName = creatorName, !.attendees = attendees]
  /\ IF creatorName = ""
     THEN /\ res' = Reply(400, "validation")
          /\ UNCHANGED <<events, attendances>>
     ELSE /\ events' = [e \in DOMAIN events \cup {eventId} |->
                          IF e = eventId
                          THEN [creatorName |-> creatorName, selectedDate |-> Null,
                                dateOptions |-> {"d1"}]
                          ELSE events[e]]
          /\ attendances' = attendances \cup
                              {[eventId |-> eventId, name |-> n] : n \in Range(attendees)}
          /\ res' = Reply(201, "")
  /\ UNCHANGED <<expenses, nextId, joined>>

\* POST /api/events/:id/finalize
FinalizeEvent(eventId, dateOptionId) ==
  /\ req' = [NoRequest EXCEPT !.op = "finalize", !.eventId = eventId,
                              !.dateOptionId = dateOptionId]
  /\ IF eventId \notin DOMAIN events
     THEN /\ res' = Reply(404, "not_found")
          /\ UNCHANGED events
     ELSE IF dateOptionId \notin events[eventId].dateOptions
     THEN /\ res' = Reply(404, "not_found")
          /\ UNCHANGED events
     ELSE /\ events' = [events EXCEPT ![eventId].selectedDate = dateOptionId]
          /\ res' = Reply(200, "")
  /\ UNCHANGED <<attendances, expenses, nextId, joined>>

\* POST /api/events/:id/cancel-finalization
CancelFinalization(eventId, creatorName) ==
  /\ req' = [NoRequest EXCEPT !.op = "cancelFinalization", !.eventId = eventId,
                              !.creatorName = creatorName]
  /\ IF creatorName = ""
     THEN /\ res' = Reply(400, "validation")
          /\ UNCHANGED events
     ELSE IF eventId \notin DOMAIN events
     THEN /\ res' = Reply(404, "not_found")
          /\ UNCHANGED events
     ELSE IF events[eventId].creatorName # creatorName
     THEN /\ res' = Reply(403, "forbidden")
          /\ UNCHANGED events
     ELSE /\ events' = [events EXCEPT ![eventId].selectedDate = Null]
          /\ res' = Reply(200, "")
  /\ UNCHANGED <<attendances, expenses, nextId, joined>>

\* POST /api/events/:id/attendances
PostAttendance(eventId, name) ==
  /\ req' = [NoRequest EXCEPT !.op = "attendance", !.eventId = eventId, !.name = name]
  /\ IF name = ""
     THEN /\ res' = Reply(400, "validation")
          /\ UNCHANGED attendances
     ELSE IF eventId \notin DOMAIN events
     THEN /\ res' = Reply(404, "not_found")
          /\ UNCHANGED attendances
     ELSE /\ attendances' = attendances \cup {[eventId |-> eventId, name |-> name]}
          /\ res' = Reply(201, "")
  /\ UNCHANGED <<events, expenses, nextId, joined>>

\* POST /api/events/:id/expenses
PostExpense(eventId, payerName, description, amount, participants) ==
  /\ req' = [NoRequest EXCEPT !.op = "expense", !.eventId = eventId,
                              !.payerName = payerName, !.description = description,
                              !.amount = amount, !.participants = participants]
  /\ IF ~ExpenseBodyValid(req')
     THEN /\ res' = Reply(400, "validation")
          /\ UNCHANGED <<expenses, nextId, joined>>
     ELSE IF eventId \notin DOMAIN events
     THEN /\ res' = Reply(404, "not_found")
          /\ UNCHANGED <<expenses, nextId, joined>>
     ELSE IF ~Finalized(eventId)
     THEN /\ res' = Reply(400, "precondition")
          /\ UNCHANGED <<expenses, nextId, joined>>
     ELSE \E eo \in Orders(EventExpenses(eventId)), ao \in Orders(EventAttendances(eventId)) :
            LET given == ZodDefault(participants)
                isSharedWithAll == SharedWithAllRequested(given)
                members == IF isSharedWithAll
                           THEN GetEventParticipants(eventId, eo, ao)
                           ELSE given
            IN /\ nextId <= MaxExpenses
               /\ expenses' = expenses \cup
                    {[id |-> nextId, eventId |-> eventId, payerName |-> payerName,
                      description |-> description, amount |-> amount,
                      participants |-> members, isSharedWithAll |-> isSharedWithAll]}
               /\ nextId' = nextId + 1
               /\ joined' = [joined EXCEPT ![nextId] = {}]
               /\ res' = [Reply(201, "") EXCEPT !.expenseId = nextId]
  /\ UNCHANGED <<events, attendances>>

\* the rows the participants handler rewrites
IsFlaggedShared(x) == x.isSharedWithAll = TRUE

IsOldSharedNever(x) == FALSE

IsOldSharedAnyUnflagged(x) == x.isSharedWithAll # TRUE

IsOldShared(x) == x.isSharedWithAll # TRUE /\ Len(x.participants) = 0

\* POST /api/events/:id/participants
PostParticipant(eventId, name) ==
  /\ req' = [NoRequest EXCEPT !.op = "participant", !.eventId = eventId, !.name = name]
  /\ IF name = ""
     THEN /\ res' = Reply(400, "validation")
          /\ UNCHANGED <<expenses, joined>>
     ELSE IF eventId \notin DOMAIN events
     THEN /\ res' = Reply(404, "not_found")
          /\ UNCHANGED <<expenses, joined>>
     ELSE IF ~Finalized(eventId)
     THEN /\ res' = Reply(400, "precondition")
          /\ UNCHANGED <<expenses, joined>>
     ELSE \E eo \in Orders(EventExpenses(eventId)), ao \in Orders(EventAttendances(eventId)) :
            LET currentParticipants == GetEventParticipants(eventId, eo, ao)
                newParticipantsList == NewParticipantsList(currentParticipants, name)
                sharedExpenses == {x \in EventExpenses(eventId) : IsFlaggedShared(x)}
                oldSharedExpenses == {x \in EventExpenses(eventId) : IsOldShared(x)}
            IN IF AlreadyRegistered(currentParticipants, name)
               THEN /\ res' = Reply(400, "duplicate")
                    /\ UNCHANGED <<expenses, joined>>
               ELSE /\ expenses' =
                         {IF x \in sharedExpenses \cup oldSharedExpenses
                          THEN [x EXCEPT !.participants = newParticipantsList,
                                         !.isSharedWithAll = TRUE]
                          ELSE x : x \in expenses}
                    /\ joined' = [i \in ExpenseIds |->
                                    IF \E x \in EventExpenses(eventId) : x.id = i
                                    THEN joined[i] \cup {name} ELSE joined[i]]
                    /\ res' = [Reply(200, "") EXCEPT
                                 !.sharedExpensesUpdated = Cardinality(sharedExpenses)]
  /\ UNCHANGED <<events, attendances, nextId>>

DeleteRowsUpTo(rows, expenseId) == {x \in rows : x.id > expenseId}

\* storage.deleteExpense: DELETE FROM expenses WHERE id = expenseId
DeleteRow(rows, expenseId) == {x \in rows : x.id # expenseId}

\* DELETE /api/events/:eventId/expenses/:expenseId
DeleteExpense(eventId, expenseId) ==
  /\ req' = [NoRequest EXCEPT !.op = "deleteExpense", !.eventId = eventId,
                              !.expenseId = expenseId]
  /\ IF eventId \notin DOMAIN events
     THEN /\ res' = Reply(404, "not_found")
          /\ UNCHANGED expenses
     ELSE /\ expenses' = DeleteRow(expenses, expenseId)
          /\ res' = Reply(204, "")
  /\ UNCHANGED <<events, attendances, nextId, joined>>

\* GET /api/events/:id/settlements
GetSettlements(eventId) ==
  /\ req' = [NoRequest EXCEPT !.op = "settlements", !.eventId = eventId]
  /\ IF eventId \notin DOMAIN events
     THEN res' = Reply(404, "not_found")
     ELSE IF ~Finalized(eventId)
     THEN res' = Reply(400, "precondition")
     ELSE \E eo \in Orders(EventExpenses(eventId)) :
            res' = IF Throws(eo)
                   THEN [Reply(500, "failed") EXCEPT !.read = eo]
                   ELSE [Reply(200, "") EXCEPT !.read = eo,
                                               !.settlements = CalculateSettlements(eo)]
  /\ UNCHANGED <<events, attendances, expenses, nextId, joined>>

\* one request at a time, each handler running to its response: no handler is
\* left in flight, and nothing is written down about the responses
OneAtATime == UNCHANGED <<added, calls, initial, loop>>

Next ==
  \/ \E e \in EventIds, c \in CreatorInputs, a \in InitialAttendeeInputs :
        CreateEvent(e, c, a) /\ OneAtATime
  \/ \E e \in EventIds, d \in DateOptionInputs : FinalizeEvent(e, d) /\ OneAtATime
  \/ \E e \in EventIds, c \in CreatorInputs : CancelFinalization(e, c) /\ OneAtATime
  \/ \E e \in EventIds, n \in AttendeeInputs : PostAttendance(e, n) /\ OneAtATime
  \/ \E e \in EventIds, b \in ExpenseInputs :
        PostExpense(e, b.payerName, b.description, b.amount, b.participants) /\ OneAtATime
  \/ \E e \in EventIds, n \in NameInputs : PostParticipant(e, n) /\ OneAtATime
  \/ \E e \in EventIds, i \in ExpenseIds : DeleteExpense(e, i) /\ OneAtATime
  \/ \E e \in EventIds : GetSettlements(e) /\ OneAtATime

Spec == Init /\ [][Next]_vars

-----------------------------------------------------------------------------
(* calculateSettlements over any stored ledger: the rows of one finalized  *)
(* event are drawn from CalcRows (flagged rows with a full or a stale      *)
(* snapshot, rows with an explicit member list, and rows written before    *)
(* the flag existed), and the settlements handler is applied to them.      *)

CalcRows ==
  [payerName : {"A", "C"}, amount : {100, 400},
   share : {[participants |-> <<>>, isSharedWithAll |-> FALSE],
            [participants |-> <<"A", "B">>, isSharedWithAll |-> FALSE],
            [participants |-> <<"C">>, isSharedWithAll |-> FALSE],
            [participants |-> <<"A", "B">>, isSharedWithAll |-> TRUE],
            [participants |-> <<"B", "C", "A">>, isSharedWithAll |-> TRUE]}]

CalcLedger(rows) ==
  {[id |-> i, eventId |-> "e1", payerName |-> rows[i].payerName,
    description |-> "meal", amount |-> rows[i].amount,
    participants |-> rows[i].share.participants,
    isSharedWithAll |-> rows[i].share.isSharedWithAll] : i \in DOMAIN rows}

InitCalc ==
  /\ events = [e \in {"e1"} |->
                 [creatorName |-> "A", selectedDate |-> "d1", dateOptions |-> {"d1"}]]
  /\ attendances = {}
  /\ \E n \in 0..MaxCalcExpenses : \E rows \in [1..n -> CalcRows] :
       expenses = CalcLedger(rows)
  /\ nextId = MaxCalcExpenses + 1
  /\ req = NoRequest
  /\ res = NoResponse
  /\ joined = [i \in ExpenseIds |-> {}]
  /\ added = {}
  /\ calls = <<>>
  /\ initial = {}
  /\ loop = NoLoop

NextCalc == \E e \in EventIds : GetSettlements(e) /\ OneAtATime

SpecCalc == InitCalc /\ [][NextCalc]_vars

-----------------------------------------------------------------------------
(* Repeated requests on one finalized event, with the names that POST      *)
(* participants accepted written down after every response.                *)

\* what the response just given adds to the history
RecordAdded ==
  /\ added' = IF req'.op = "participant" /\ res'.status = 200
              THEN added \cup {<<req'.eventId, req'.name>>}
              ELSE IF req'.op = "deleteExpense" /\ res'.status = 204
              THEN {}
              ELSE added
  /\ UNCHANGED <<calls, initial, loop>>

AddExpenseInputs == {b \in ExpenseInputs : ExpenseBodyValid(b)}

InitAdd ==
  /\ events = [e \in {"e1"} |->
                 [creatorName |-> "A", selectedDate |-> "d1", dateOptions |-> {"d1"}]]
  /\ attendances = {}
  /\ expenses = {}
  /\ nextId = 1
  /\ req = NoRequest
  /\ res = NoResponse
  /\ joined = [i \in ExpenseIds |-> {}]
  /\ added = {}
  /\ calls = <<>>
  /\ initial = {}
  /\ loop = NoLoop

NextAdd ==
  \/ \E e \in EventIds, n \in AttendeeInputs : PostAttendance(e, n) /\ RecordAdded
  \/ \E e \in EventIds, b \in AddExpenseInputs :
        PostExpense(e, b.payerName, b.description, b.amount, b.participants) /\ RecordAdded
  \/ \E e \in EventIds, n \in Names : PostParticipant(e, n) /\ RecordAdded
  \/ \E e \in EventIds, i \in ExpenseIds : DeleteExpense(e, i) /\ RecordAdded
  \/ \E e \in EventIds : GetSettlements(e) /\ RecordAdded

SpecAdd == InitAdd /\ [][NextAdd]_vars

-----------------------------------------------------------------------------
(* Adding participants to a ledger that already holds rows: flagged ones,  *)
(* rows with an explicit member list, and rows written before the flag     *)
(* existed (no flag, no members).                                          *)

LedgerRows ==
  [payerName : {"A", "C"}, amount : {400},
   share : {[participants |-> <<>>, isSharedWithAll |-> FALSE],
            [participants |-> <<"A", "B">>, isSharedWithAll |-> FALSE],
            [participants |-> <<"A", "B">>, isSharedWithAll |-> TRUE]}]

InitLedger ==
  /\ events = [e \in {"e1"} |->
                 [creatorName |-> "A", selectedDate |-> "d1", dateOptions |-> {"d1"}]]
  /\ attendances = {}
  /\ \E n \in 0..MaxCalcExpenses : \E rows \in [1..n -> LedgerRows] :
       expenses = CalcLedger(rows)
  /\ nextId = MaxCalcExpenses + 1
  /\ req = NoRequest
  /\ res = NoResponse
  /\ joined = [i \in ExpenseIds |-> {}]
  /\ added = {}
  /\ calls = <<>>
  /\ initial = {}
  /\ loop = NoLoop

NextLedger ==
  \/ \E e \in EventIds, n \in AttendeeInputs : PostAttendance(e, n) /\ OneAtATime
  \/ \E e \in EventIds, n \in NameInputs : PostParticipant(e, n) /\ OneAtATime
  \/ \E e \in EventIds, i \in ExpenseIds : DeleteExpense(e, i) /\ OneAtATime
  \/ \E e \in EventIds : GetSettlements(e) /\ OneAtATime

SpecLedger == InitLedger /\ [][NextLedger]_vars

-----------------------------------------------------------------------------
(* Two finalized events served by the same storage.                        *)

BothEvents == {"e1", "e2"}
TwoExpenseInputs == {b \in AddExpenseInputs : b.payerName = "C"}

InitTwo ==
  /\ events = [e \in BothEvents |->
                 [creatorName |-> IF e = "e1" THEN "A" ELSE "B",
                  selectedDate |-> "d1", dateOptions |-> {"d1"}]]
  /\ attendances = {}
  /\ expenses = {}
  /\ nextId = 1
  /\ req = NoRequest
  /\ res = NoResponse
  /\ joined = [i \in ExpenseIds |-> {}]
  /\ added = {}
  /\ calls = <<>>
  /\ initial = {}
  /\ loop = NoLoop

NextTwo ==
  \/ \E e \in BothEvents, b \in TwoExpenseInputs :
        PostExpense(e, b.payerName, b.description, b.amount, b.participants) /\ OneAtATime
  \/ \E e \in BothEvents, n \in Names : PostParticipant(e, n) /\ OneAtATime
  \/ \E e \in BothEvents, i \in ExpenseIds : DeleteExpense(e, i) /\ OneAtATime
  \/ \E e \in BothEvents : GetSettlements(e) /\ OneAtATime

SpecTwo == InitTwo /\ [][NextTwo]_vars

-----------------------------------------------------------------------------
(* Handlers in flight. Node runs a handler up to its next await and then   *)
(* lets another one run, so a step is one awaited storage call together    *)
(* with the code that follows it up to the next await.                     *)

\* a handler that has been called with a request and has not yet run
Call(op, name, payerName, participants, expenseId) ==
  [op |-> op, pc |-> "getEvent", eventId |-> "e1", name |-> name, payerName |-> payerName,
   description |-> "meal", amount |-> 400, participants |-> participants,
   expenseId |-> expenseId, participantsSet |-> <<>>, todo |-> <<>>,
   sharedCount |-> 0, status |-> 0, newId |-> 0]

Answer(c, status) == [calls EXCEPT ![c].pc = "done", ![c].status = status]

Goto(c, pc) == [calls EXCEPT ![c].pc = pc]

\* POST expenses, up to "await storage.getEvent" and the checks after it
RecordGetEvent(c) ==
  /\ calls[c].op = "expense"
  /\ calls[c].pc = "getEvent"
  /\ calls' = IF ~ExpenseBodyValid(calls[c]) THEN Answer(c, 400)
              ELSE IF calls[c].eventId \notin DOMAIN events THEN Answer(c, 404)
              ELSE IF ~Finalized(calls[c].eventId) THEN Answer(c, 400)
              ELSE IF SharedWithAllRequested(ZodDefault(calls[c].participants))
              THEN Goto(c, "getEventExpenses")
              ELSE Goto(c, "createExpense")
  /\ UNCHANGED <<events, attendances, expenses, nextId, req, res, joined, added, initial, loop>>

\* POST participants, up to "await storage.getEvent" and the checks after it
AddGetEvent(c) ==
  /\ calls[c].op = "participant"
  /\ calls[c].pc = "getEvent"
  /\ calls' = IF calls[c].name = "" THEN Answer(c, 400)
              ELSE IF calls[c].eventId \notin DOMAIN events THEN Answer(c, 404)
              ELSE IF ~Finalized(calls[c].eventId) THEN Answer(c, 400)
              ELSE Goto(c, "getEventExpenses")
  /\ UNCHANGED <<events, attendances, expenses, nextId, req, res, joined, added, initial, loop>>

\* DELETE expense, up to "await storage.getEvent" and the check after it
DeleteGetEvent(c) ==
  /\ calls[c].op = "deleteExpense"
  /\ calls[c].pc = "getEvent"
  /\ calls' = IF calls[c].eventId \notin DOMAIN events THEN Answer(c, 404)
              ELSE Goto(c, "deleteExpense")
  /\ UNCHANGED <<events, attendances, expenses, nextId, req, res, joined, added, initial, loop>>

\* getEventParticipants: "await this.getEventExpenses", payers and members added
ResolveExpenses(c) ==
  /\ calls[c].pc = "getEventExpenses"
  /\ \E eo \in Orders(EventExpenses(calls[c].eventId)) :
       calls' = [calls EXCEPT ![c].pc = "getEventAttendances",
                              ![c].participantsSet = AddMembers(AddPayers(<<>>, eo), eo)]
  /\ UNCHANGED <<events, attendances, expenses, nextId, req, res, joined, added, initial, loop>>

\* getEventParticipants: "await this.getEventAttendances", respondents added
ResolveAttendances(c) ==
  /\ calls[c].pc = "getEventAttendances"
  /\ \E ao \in Orders(EventAttendances(calls[c].eventId)) :
       calls' = [calls EXCEPT ![c].pc = "getCreator",
                              ![c].participantsSet = AddAttendees(@, ao)]
  /\ UNCHANGED <<events, attendances, expenses, nextId, req, res, joined, added, initial, loop>>

\* getEventParticipants: "await this.getEvent", creator added; the list goes
\* back to the handler, which runs on to its next await
ResolveCreator(c) ==
  /\ calls[c].pc = "getCreator"
  /\ LET currentParticipants == AddCreator(calls[c].participantsSet, calls[c].eventId)
         resolved == [calls EXCEPT ![c].participantsSet = currentParticipants]
     IN calls' = IF calls[c].op = "expense"
                 THEN [resolved EXCEPT ![c].pc = "createExpense"]
                 ELSE IF AlreadyRegistered(currentParticipants, calls[c].name)
                 THEN [resolved EXCEPT ![c].pc = "done", ![c].status = 400]
                 ELSE [resolved EXCEPT ![c].pc = "getExpenses"]
  /\ UNCHANGED <<events, attendances, expenses, nextId, req, res, joined, added, initial, loop>>

\* POST expenses: "await storage.createExpense" and the response
RecordCreateExpense(c) ==
  /\ calls[c].op = "expense"
  /\ calls[c].pc = "createExpense"
  /\ LET given == ZodDefault(calls[c].participants)
         isSharedWithAll == SharedWithAllRequested(given)
     IN expenses' = expenses \cup
          {[id |-> nextId, eventId |-> calls[c].eventId, payerName |-> calls[c].payerName,
            description |-> calls[c].description, amount |-> calls[c].amount,
            participants |-> IF isSharedWithAll THEN calls[c].participantsSet ELSE given,
            isSharedWithAll |-> isSharedWithAll]}
  /\ nextId' = nextId + 1
  /\ calls' = [calls EXCEPT ![c].pc = "done", ![c].status = 201, ![c].newId = nextId]
  /\ UNCHANGED <<events, attendances, req, res, joined, added, initial, loop>>

IdsOf(rows) == [i \in 1..Len(rows) |-> rows[i].id]

\* POST participants: "await storage.getEventExpenses" and the two filters
AddGetExpenses(c) ==
  /\ calls[c].op = "participant"
  /\ calls[c].pc = "getExpenses"
  /\ \E eo \in Orders(EventExpenses(calls[c].eventId)) :
       LET sharedExpenses == SelectSeq(eo, IsFlaggedShared)
           oldSharedExpenses == SelectSeq(eo, IsOldShared)
           todo == IdsOf(sharedExpenses) \o IdsOf(oldSharedExpenses)
       IN calls' = [calls EXCEPT ![c].todo = todo,
                                 ![c].sharedCount = Len(sharedExpenses),
                                 ![c].pc = IF todo = <<>> THEN "done" ELSE "updateExpense",
                                 ![c].status = IF todo = <<>> THEN 200 ELSE 0]
  /\ UNCHANGED <<events, attendances, expenses, nextId, req, res, joined, added, initial, loop>>

\* POST participants: one "await storage.updateExpense" of the two loops; a
\* row that is gone makes updateExpense throw, which is answered 500
AddUpdateExpense(c) ==
  /\ calls[c].op = "participant"
  /\ calls[c].pc = "updateExpense"
  /\ LET id == Head(calls[c].todo)
         newParticipantsList == NewParticipantsList(calls[c].participantsSet, calls[c].name)
     IN IF \E x \in expenses : x.id = id
        THEN /\ expenses' = {IF x.id = id
                             THEN [x EXCEPT !.participants = newParticipantsList,
                                            !.isSharedWithAll = TRUE]
                             ELSE x : x \in expenses}
             /\ calls' = [calls EXCEPT
                            ![c].todo = Tail(@),
                            ![c].pc = IF Tail(calls[c].todo) = <<>> THEN "done" ELSE @,
                            ![c].status = IF Tail(calls[c].todo) = <<>> THEN 200 ELSE @]
        ELSE /\ calls' = Answer(c, 500)
             /\ UNCHANGED expenses
  /\ UNCHANGED <<events, attendances, nextId, req, res, joined, added, initial, loop>>

\* DELETE expense: "await storage.deleteExpense" and the response
DeleteRun(c) ==
  /\ calls[c].op = "deleteExpense"
  /\ calls[c].pc = "deleteExpense"
  /\ expenses' = DeleteRow(expenses, calls[c].expenseId)
  /\ calls' = Answer(c, 204)
  /\ UNCHANGED <<events, attendances, nextId, req, res, joined, added, initial, loop>>

AllDone == \A c \in DOMAIN calls : calls[c].pc = "done"

\* GET settlements, asked once every handler in flight has answered
SettleAfterwards(eventId) ==
  /\ AllDone
  /\ GetSettlements(eventId)
  /\ UNCHANGED <<added, calls, initial, loop>>

\* the requests that run against each other
RaceCalls ==
  {Call("participant", "C", "", Omitted, 0),
   Call("expense", "", "B", Omitted, 0),
   Call("expense", "", "C", Given(<<>>), 0),
   Call("expense", "", "A", Given(<<"A", "B">>), 0),
   Call("deleteExpense", "", "", Omitted, 1)}

\* what the ledger holds when they start
RaceLedgers ==
  {{}} \cup
  {CalcLedger(<<[payerName |-> "A", amount |-> 400, share |-> sh]>>) :
     sh \in {[participants |-> <<"A">>, isSharedWithAll |-> TRUE],
             [participants |-> <<"B", "A">>, isSharedWithAll |-> FALSE]}}

InitRace ==
  /\ events = [e \in {"e1"} |->
                 [creatorName |-> "A", selectedDate |-> "d1", dateOptions |-> {"d1"}]]
  /\ attendances \in {{}, {[eventId |-> "e1", name |-> "B"]}}
  /\ expenses \in RaceLedgers
  /\ initial = expenses
  /\ loop = NoLoop
  /\ nextId = 2
  /\ req = NoRequest
  /\ res = NoResponse
  /\ joined = [i \in ExpenseIds |-> {}]
  /\ added = {}
  /\ calls \in [{1, 2} -> RaceCalls]

NextRace ==
  \/ \E c \in DOMAIN calls : RecordGetEvent(c)
  \/ \E c \in DOMAIN calls : AddGetEvent(c)
  \/ \E c \in DOMAIN calls : DeleteGetEvent(c)
  \/ \E c \in DOMAIN calls : ResolveExpenses(c)
  \/ \E c \in DOMAIN calls : ResolveAttendances(c)
  \/ \E c \in DOMAIN calls : ResolveCreator(c)
  \/ \E c \in DOMAIN calls : RecordCreateExpense(c)
  \/ \E c \in DOMAIN calls : AddGetExpenses(c)
  \/ \E c \in DOMAIN calls : AddUpdateExpense(c)
  \/ \E c \in DOMAIN calls : DeleteRun(c)
  \/ \E e \in EventIds : SettleAfterwards(e)

SpecRace == InitRace /\ [][NextRace]_vars

-----------------------------------------------------------------------------
(* Two handlers that add a participant, or one that adds and one that      *)
(* deletes, running against each other on a ledger of shared expenses.     *)

AddCalls ==
  {Call("participant", "C", "", Omitted, 0),
   Call("participant", "D", "", Omitted, 0),
   Call("deleteExpense", "", "", Omitted, 1),
   Call("deleteExpense", "", "", Omitted, 2)}

\* one or two expenses shared by everybody, flagged or in the old format
AddLedgers ==
  {CalcLedger(rows) :
     rows \in UNION {[1..n -> [payerName : {"A"}, amount : {400},
                               share : {[participants |-> <<"A">>, isSharedWithAll |-> TRUE],
                                        [participants |-> <<>>, isSharedWithAll |-> FALSE]}]] :
                     n \in 1..2}}

InitAdds ==
  /\ events = [e \in {"e1"} |->
                 [creatorName |-> "A", selectedDate |-> "d1", dateOptions |-> {"d1"}]]
  /\ attendances \in {{}, {[eventId |-> "e1", name |-> "B"]}}
  /\ expenses \in AddLedgers
  /\ initial = expenses
  /\ loop = NoLoop
  /\ nextId = 3
  /\ req = NoRequest
  /\ res = NoResponse
  /\ joined = [i \in ExpenseIds |-> {}]
  /\ added = {}
  /\ calls \in [{1, 2} -> AddCalls]

NextAdds ==
  \/ \E c \in DOMAIN calls : AddGetEvent(c)
  \/ \E c \in DOMAIN calls : DeleteGetEvent(c)
  \/ \E c \in DOMAIN calls : ResolveExpenses(c)
  \/ \E c \in DOMAIN calls : ResolveAttendances(c)
  \/ \E c \in DOMAIN calls : ResolveCreator(c)
  \/ \E c \in DOMAIN calls : AddGetExpenses(c)
  \/ \E c \in DOMAIN calls : AddUpdateExpense(c)
  \/ \E c \in DOMAIN calls : DeleteRun(c)
  \/ \E e \in EventIds : SettleAfterwards(e)

SpecAdds == InitAdds /\ [][NextAdds]_vars

-----------------------------------------------------------------------------
(* The matching loop of calculateSettlements, one iteration at a time, on  *)
(* ledgers of four people.                                                 *)

MatchRows ==
  [payerName : {"A", "B"}, amount : {600, 1200},
   share : {[participants |-> <<"A", "C", "D">>, isSharedWithAll |-> FALSE],
            [participants |-> <<"B", "C">>, isSharedWithAll |-> FALSE],
            [participants |-> <<"A", "B">>, isSharedWithAll |-> TRUE]}]

InitMatch ==
  /\ events = [e \in {"e1"} |->
                 [creatorName |-> "A", selectedDate |-> "d1", dateOptions |-> {"d1"}]]
  /\ attendances = {}
  /\ \E n \in 0..MaxCalcExpenses : \E rows \in [1..n -> MatchRows] :
       expenses = CalcLedger(rows)
  /\ nextId = MaxCalcExpenses + 1
  /\ req = NoRequest
  /\ res = NoResponse
  /\ joined = [i \in ExpenseIds |-> {}]
  /\ added = {}
  /\ calls = <<>>
  /\ initial = {}
  /\ loop = NoLoop

PaymentAmountNone(payer, receiver) == 0

\* Math.min(payer.amount, receiver.amount)
PaymentAmount(payer, receiver) == Min(payer.amount, receiver.amount)

\* steps 1 to 5 and the clones: the loop is about to test its condition
LoopEnter(eventId) ==
  /\ loop.pc = "idle"
  /\ eventId \in DOMAIN events
  /\ Finalized(eventId)
  /\ \E eo \in Orders(EventExpenses(eventId)) :
       /\ ~Throws(eo)
       /\ loop' = IF Len(eo) = 0
                  THEN [NoLoop EXCEPT !.pc = "done"]
                  ELSE [pc |-> "while", list |-> eo, payers |-> Payers(eo),
                        receivers |-> Receivers(eo), settlements |-> <<>>]
  /\ UNCHANGED <<events, attendances, expenses, nextId, req, res, joined, added, calls, initial>>

\* one pass through the body of the while loop
LoopIteration ==
  /\ loop.pc = "while"
  /\ Len(loop.payers) > 0 /\ Len(loop.receivers) > 0
  /\ LET payer == Head(loop.payers)
         receiver == Head(loop.receivers)
         paymentAmount == PaymentAmount(payer, receiver)
     IN loop' =
          IF paymentAmount > 0
          THEN [loop EXCEPT
                  !.settlements = Append(@, [from |-> payer.name, to |-> receiver.name,
                                             amount |-> paymentAmount]),
                  !.payers = IF payer.amount - paymentAmount <= 0 THEN Tail(@)
                             ELSE <<[payer EXCEPT !.amount = @ - paymentAmount]>> \o Tail(@),
                  !.receivers = IF receiver.amount - paymentAmount <= 0 THEN Tail(@)
                                ELSE <<[receiver EXCEPT !.amount = @ - paymentAmount]>> \o Tail(@)]
          ELSE [loop EXCEPT !.pc = "break"]
  /\ UNCHANGED <<events, attendances, expenses, nextId, req, res, joined, added, calls, initial>>

\* the condition of the while loop fails: the settlements are returned
LoopExit ==
  /\ loop.pc = "while"
  /\ ~(Len(loop.payers) > 0 /\ Len(loop.receivers) > 0)
  /\ loop' = [loop EXCEPT !.pc = "done"]
  /\ UNCHANGED <<events, attendances, expenses, nextId, req, res, joined, added, calls, initial>>

NextMatch ==
  \/ \E e \in EventIds : LoopEnter(e)
  \/ LoopIteration
  \/ LoopExit

SpecMatch == InitMatch /\ [][NextMatch]_vars

-----------------------------------------------------------------------------
(* Properties                                                              *)

\* the event has a finalized date
HasFinalizedDate(eventId) == events[eventId].selectedDate # Null

\* a request body with a payer, a description and a positive amount
WellFormedExpense(r) == r.payerName # "" /\ r.description # "" /\ r.amount > 0

SettlementReply == req.op = "settlements" /\ res.status = 200

\* an expense as the ledger accepts it: a payer, a positive whole amount
ValidExpense(x) == x.payerName # "" /\ x.amount > 0 /\ x.amount % 100 = 0

AllValid(list) == \A i \in 1..Len(list) : ValidExpense(list[i])

TransferTotal(settlements) ==
  SumSeq([i \in 1..Len(settlements) |-> settlements[i].amount])

BalanceOf(list, name) == Paid(list, name) - ShouldPay(list, name)

\* the balance of name once every transfer has been carried out
AdjustedBalance(list, settlements, name) ==
  BalanceOf(list, name)
  - SumSeq([i \in 1..Len(settlements) |->
             IF settlements[i].to = name THEN settlements[i].amount ELSE 0])
  + SumSeq([i \in 1..Len(settlements) |->
             IF settlements[i].from = name THEN settlements[i].amount ELSE 0])

\* the participant set of section 4.1, from the stored rows: the creator, the
\* poll respondents, and the payer and listed members of every expense
ResolvedSet(eventId) ==
  {events[eventId].creatorName}
  \cup {a.name : a \in EventAttendances(eventId)}
  \cup {x.payerName : x \in EventExpenses(eventId)}
  \cup UNION {Range(x.participants) : x \in EventExpenses(eventId)}

\* C1: Conservation. For every non-empty list of valid expenses the amounts of
\* the transfers returned by calculateSettlements add up to the sum of the
\* positive net balances, which equals the sum of the absolute values of the
\* negative ones (so the mismatch warning is never logged).
C1_Conservation ==
  (SettlementReply /\ Len(res.read) > 0 /\ AllValid(res.read)) =>
    /\ TransferTotal(res.settlements) = TotalReceive(res.read)
    /\ TotalReceive(res.read) = TotalPay(res.read)

\* a settlement of two transfers over a flagged expense whose amount leaves a remainder
C1_Witness ==
  /\ SettlementReply
  /\ AllValid(res.read)
  /\ Len(res.settlements) >= 2
  /\ \E i \in 1..Len(res.read) :
       /\ res.read[i].isSharedWithAll
       /\ Remainder(ParseInt(res.read[i].amount), Len(AllCurrentParticipants(res.read))) > 0

\* C2: Zero-sum closure. For every list of valid expenses, once every returned
\* transfer is applied (the creditor's balance lowered, the debtor's raised by
\* the amount) every participant's balance is exactly 0.
C2_ZeroSumClosure ==
  (SettlementReply /\ AllValid(res.read)) =>
    \A name \in Range(AllCurrentParticipants(res.read)) :
      AdjustedBalance(res.read, res.settlements, name) = 0

\* a settlement where one debtor pays two creditors
C2_Witness ==
  /\ SettlementReply
  /\ AllValid(res.read)
  /\ \E i, j \in 1..Len(res.settlements) :
       /\ i # j
       /\ res.settlements[i].from = res.settlements[j].from
       /\ res.settlements[i].to # res.settlements[j].to

\* C3: Dynamic growth. A SharedWithAll expense that was on the ledger when a
\* participant was successfully added is split, at the following settlements,
\* among a group that holds the added name, who is charged a share of it.
C3_DynamicGrowth ==
  SettlementReply =>
    \A i \in 1..Len(res.read) :
      LET x == res.read[i]
          all == AllCurrentParticipants(res.read)
          split == SplitParticipants(x, all)
      IN IsFlaggedShared(x) =>
           \A n \in joined[x.id] :
             /\ n \in Range(split)
             /\ ExpenseShare(x, all, n) >= PerPersonAmount(ParseInt(x.amount), Len(split))
             /\ ExpenseShare(x, all, n) <= PerPersonAmount(ParseInt(x.amount), Len(split)) + 1

\* the example of the specification: participants A and B, C added afterwards,
\* and the settlement splits the expense three ways
C3_Witness ==
  /\ SettlementReply
  /\ \E i \in 1..Len(res.read) :
       /\ IsFlaggedShared(res.read[i])
       /\ res.read[i].payerName = "A"
       /\ joined[res.read[i].id] = {"C"}
       /\ Range(SplitParticipants(res.read[i], AllCurrentParticipants(res.read)))
            = {"A", "B", "C"}
       /\ ExpenseShare(res.read[i], AllCurrentParticipants(res.read), "C") = 1

\* C4: at every settlement the split group of each SharedWithAll expense is the
\* event's current resolved participant set.
C4_SplitGroupIsResolvedSet ==
  SettlementReply =>
    \A i \in 1..Len(res.read) :
      IsFlaggedShared(res.read[i]) =>
        Range(SplitParticipants(res.read[i], AllCurrentParticipants(res.read)))
          = ResolvedSet(req.eventId)

\* C5: Resolver monotonicity. No operation removes a name from the set
\* getEventParticipants resolves for an event.
C5_ResolverMonotonic ==
  [][\A e \in DOMAIN events : ResolvedParticipants(e) \subseteq ResolvedParticipants(e)']_vars

C7_SharedSnapshot ==
  [][/\ (/\ req'.op = "expense"
         /\ req'.participants \in {Omitted, Given(<<>>)}
         /\ WellFormedExpense(req')
         /\ req'.eventId \in DOMAIN events
         /\ HasFinalizedDate(req'.eventId)) => res'.status = 201
     /\ (/\ req'.op = "expense"
         /\ req'.participants \in {Omitted, Given(<<>>)}
         /\ res'.status = 201) =>
          /\ HasFinalizedDate(req'.eventId)
          /\ Cardinality(expenses' \ expenses) = 1
          /\ \A x \in expenses' \ expenses :
               /\ x.id = res'.expenseId
               /\ x.eventId = req'.eventId
               /\ x.isSharedWithAll = TRUE
               /\ Range(x.participants) = ResolvedSet(req'.eventId)
               /\ Len(x.participants) = Cardinality(ResolvedSet(req'.eventId))]_vars

\* an omitted member list, stored as a snapshot of three names
C7_Witness ==
  /\ req.op = "expense"
  /\ req.participants = Omitted
  /\ res.status = 201
  /\ \E x \in expenses :
       x.id = res.expenseId /\ x.isSharedWithAll /\ Range(x.participants) = {"A", "B", "C"}

\* C8: recordExpense with amount <= 0, an empty description or an empty payer
\* name fails with a validation error and leaves the stored expenses as they were.
C8_ValidationRejects ==
  [][(/\ req'.op = "expense"
      /\ (req'.amount <= 0 \/ req'.description = "" \/ req'.payerName = "")) =>
       /\ res'.status = 400
       /\ res'.error = "validation"
       /\ expenses' = expenses]_vars

\* a malformed request refused on a finalized event that has expenses
C8_Witness ==
  /\ req.op = "expense"
  /\ req.amount <= 0
  /\ res.error = "validation"
  /\ req.eventId \in DOMAIN events
  /\ HasFinalizedDate(req.eventId)
  /\ expenses # {}

\* C9: recordExpense on an event whose date is not finalized (never finalized,
\* or finalization cancelled) fails and creates no expense; a well-formed
\* request is refused with the precondition error.
C9_FinalizedGate ==
  [][(/\ req'.op = "expense"
      /\ req'.eventId \in DOMAIN events
      /\ ~HasFinalizedDate(req'.eventId)) =>
       /\ res'.status = 400
       /\ res'.error \in {"precondition", "validation"}
       /\ (WellFormedExpense(req') => res'.error = "precondition")
       /\ expenses' = expenses
       /\ nextId' = nextId]_vars

\* refused after the finalization was cancelled: the event already has an expense
C9_Witness ==
  /\ req.op = "expense"
  /\ res.error = "precondition"
  /\ ~HasFinalizedDate(req.eventId)
  /\ EventExpenses(req.eventId) # {}

C11_SecondAddRejected ==
  [][(req'.op = "participant" /\ <<req'.eventId, req'.name>> \in added) =>
       /\ res'.status = 400
       /\ res'.error = "duplicate"
       /\ expenses' = expenses]_vars

\* an expense split among everybody: flagged, or stored without members
SharedRow(x) == x.isSharedWithAll = TRUE \/ Len(x.participants) = 0

AddReply == req.op = "participant" /\ res.status = 200

\* C12: after a successful addParticipant(event, newName) every expense of the
\* event that was flagged SharedWithAll, or was an unflagged row with an empty
\* member list, is flagged SharedWithAll and has as its member snapshot the
\* previously resolved participant set plus newName.
C12_SnapshotRewritten ==
  [][AddReply' =>
       \A x \in EventExpenses(req'.eventId) :
         SharedRow(x) =>
           \E y \in expenses' :
             /\ y.id = x.id
             /\ y.eventId = x.eventId
             /\ y.isSharedWithAll = TRUE
             /\ Range(y.participants) = ResolvedSet(req'.eventId) \cup {req'.name}
             /\ Len(y.participants) = Cardinality(ResolvedSet(req'.eventId)) + 1]_vars

\* C added to a ledger that knows A and B: no row was flagged, and an unflagged
\* row now holds the snapshot of all three
C12_Witness ==
  /\ AddReply
  /\ req.name = "C"
  /\ res.sharedExpensesUpdated = 0
  /\ \E x \in expenses : x.isSharedWithAll = TRUE /\ Range(x.participants) = {"A", "B", "C"}

\* C13: the count returned by a successful addParticipant is the number of
\* expenses whose snapshot that call rewrote, flagged and unflagged alike.
C13_CountReturned ==
  [][AddReply' => res'.sharedExpensesUpdated = Cardinality(expenses \ expenses')]_vars

\* an expense with the ExplicitShare policy
ExplicitRow(x) == x.isSharedWithAll # TRUE /\ Len(x.participants) > 0

\* C14: the member list of an ExplicitShare expense is the list given when it
\* was recorded, and no operation changes it afterwards: every step leaves the
\* row of a stored ExplicitShare expense as it is (or deletes it), and no new
\* row takes its id.
C14_ExplicitShareFixed ==
  [][/\ \A x \in expenses : ExplicitRow(x) =>
          /\ \A y \in expenses' : y.id = x.id => y = x
          /\ (x \notin expenses' => req'.op = "deleteExpense" /\ req'.expenseId = x.id)
     /\ (/\ req'.op = "expense"
         /\ res'.status = 201
         /\ req'.participants.given
         /\ Len(req'.participants.list) > 0) =>
          \E y \in expenses' \ expenses :
            /\ y.id = res'.expenseId
            /\ ExplicitRow(y)
            /\ y.participants = req'.participants.list]_vars

\* C added while the ledger holds a SharedWithAll expense, rewritten, and an
\* ExplicitShare expense of A and B, kept
C14_Witness ==
  /\ AddReply
  /\ req.name = "C"
  /\ res.sharedExpensesUpdated >= 1
  /\ \E x \in expenses : ExplicitRow(x) /\ x.participants = <<"A", "B">>
  /\ \E x \in expenses : x.isSharedWithAll = TRUE /\ "C" \in Range(x.participants)

\* C15: deleteExpense(id) removes exactly the expense with that id: every other
\* expense stays, with its payer, amount, member snapshot and flag; a delete
\* request that is refused removes nothing.
C15_DeleteFrame ==
  [][req'.op = "deleteExpense" =>
       IF res'.status = 204
       THEN /\ \A x \in expenses : x.id # req'.expenseId => x \in expenses'
            /\ \A y \in expenses' : y \in expenses /\ y.id # req'.expenseId
       ELSE expenses' = expenses]_vars

\* the first of two recorded expenses deleted, the second left with its
\* snapshot of three names
C15_Witness ==
  /\ req.op = "deleteExpense"
  /\ res.status = 204
  /\ req.expenseId = 1
  /\ nextId = 3
  /\ \E x \in expenses : x.id = 2 /\ Len(x.participants) = 3
  /\ \A x \in expenses : x.id = 2

\* C16: Cross-event independence. A request addressed to event E (recordExpense,
\* deleteExpense, addParticipant, settlement) leaves the expenses and the
\* participant set of every other event as they were; in particular a delete
\* issued under E never removes an expense of another event.
C16_CrossEventIndependence ==
  [][req'.op \in {"expense", "deleteExpense", "participant", "settlements"} =>
       \A e \in DOMAIN events : e # req'.eventId =>
         /\ \A x \in expenses : x.eventId = e => x \in expenses'
         /\ \A y \in expenses' : y.eventId = e => y \in expenses
         /\ ResolvedSet(e)' = ResolvedSet(e)]_vars

\* a handler in flight that has answered with the given status
Answered(c, op, status) ==
  calls[c].op = op /\ calls[c].pc = "done" /\ calls[c].status = status

\* C17: for every interleaving of the storage reads and writes of a concurrent
\* addParticipant(event, C) and recordExpense(event, SharedWithAll), once both
\* have answered with success the following settlement has C in the split group
\* of the newly recorded expense and charges C a share of it.
C17_RaceChargesNewcomer ==
  SettlementReply =>
    \A c1, c2 \in DOMAIN calls :
      (/\ Answered(c1, "participant", 200)
       /\ Answered(c2, "expense", 201)
       /\ ZodDefault(calls[c2].participants) = <<>>) =>
        \A i \in 1..Len(res.read) :
          res.read[i].id = calls[c2].newId =>
            LET all == AllCurrentParticipants(res.read)
            IN /\ calls[c1].name \in Range(SplitParticipants(res.read[i], all))
               /\ ExpenseShare(res.read[i], all, calls[c1].name) > 0

\* when the ledger held a SharedWithAll expense as the two handlers started,
\* the added name is charged whatever the interleaving: addParticipant writes
\* it into that expense, and the settlement splits every flagged expense among
\* all the names of the ledger
StoredSharedRowChargesNewcomer ==
  (\E x \in initial : x.isSharedWithAll) =>
    (SettlementReply =>
      \A c1, c2 \in DOMAIN calls :
        (/\ Answered(c1, "participant", 200)
         /\ Answered(c2, "expense", 201)
         /\ ZodDefault(calls[c2].participants) = <<>>) =>
          \A i \in 1..Len(res.read) :
            res.read[i].id = calls[c2].newId =>
              calls[c1].name \in
                Range(SplitParticipants(res.read[i], AllCurrentParticipants(res.read))))

\* a stored row without its id: where it comes from (a row of the initial
\* ledger, or the row recorded by call c), payer, member set and flag
RowOfCall(c) == 10 + c

Origin(x) ==
  IF \E c \in DOMAIN calls : calls[c].newId = x.id
  THEN RowOfCall(CHOOSE c \in DOMAIN calls : calls[c].newId = x.id)
  ELSE x.id

Plain(rows) ==
  {[origin |-> Origin(x), payerName |-> x.payerName, members |-> Range(x.participants),
    isSharedWithAll |-> x.isSharedWithAll] : x \in rows}

\* the participant set of the event over plain rows
ResolvedOver(eventId, rows) ==
  {events[eventId].creatorName}
  \cup {a.name : a \in EventAttendances(eventId)}
  \cup {x.payerName : x \in rows}
  \cup UNION {x.members : x \in rows}

\* what call c leaves when it runs alone, from start to response, on rows
RunAlone(rows, c) ==
  IF calls[c].op = "deleteExpense"
  THEN {x \in rows : x.origin # calls[c].expenseId}
  ELSE IF calls[c].op = "expense"
  THEN rows \cup
         {[origin |-> RowOfCall(c), payerName |-> calls[c].payerName,
           members |-> IF ZodDefault(calls[c].participants) = <<>>
                       THEN ResolvedOver(calls[c].eventId, rows)
                       ELSE Range(calls[c].participants.list),
           isSharedWithAll |-> ZodDefault(calls[c].participants) = <<>>]}
  ELSE rows

RECURSIVE RunSerially(_, _)
RunSerially(rows, order) ==
  IF order = <<>> THEN rows
  ELSE RunSerially(RunAlone(rows, Head(order)), Tail(order))

OnlyRecordAndDelete ==
  /\ DOMAIN calls # {}
  /\ \A c \in DOMAIN calls : calls[c].op \in {"expense", "deleteExpense"}

\* C18: concurrent recordExpense and deleteExpense calls on one event are
\* serialized: whatever the interleaving of their reads and writes, once all
\* have answered the stored expenses and their member snapshots are what the
\* same calls leave when run one after the other in some order.
C18_Serializable ==
  (OnlyRecordAndDelete /\ AllDone) =>
    \E order \in Orders(DOMAIN calls) :
      Plain(expenses) = RunSerially(Plain(initial), order)

\* one recordExpense against one deleteExpense, or two deleteExpense, do end
\* as some serial order ends: recordExpense writes once, after its reads, and
\* deleteExpense only writes
DeleteRacesSerializable ==
  (/\ OnlyRecordAndDelete
   /\ AllDone
   /\ \E c \in DOMAIN calls : calls[c].op = "deleteExpense") =>
    \E order \in Orders(DOMAIN calls) :
      Plain(expenses) = RunSerially(Plain(initial), order)

\* C19: calculateSettlements never faults on a list of stored expenses, the
\* empty list included: the settlement request is answered 200, every payer and
\* every member of every split group has a balance-sheet entry, and every split
\* group has at least one member.
C19_NeverFaults ==
  (req.op = "settlements" /\ req.eventId \in DOMAIN events /\ HasFinalizedDate(req.eventId)) =>
    /\ res.status = 200
    /\ \A i \in 1..Len(res.read) :
         LET all == AllCurrentParticipants(res.read)
             split == SplitParticipants(res.read[i], all)
         IN /\ res.read[i].payerName \in Range(all)
            /\ Range(split) \subseteq Range(all)
            /\ Len(split) >= 1

\* a ledger of one row stored without members and without the flag: the payer
\* is the only name there is
C19_Witness ==
  /\ SettlementReply
  /\ Len(res.read) = 1
  /\ res.read[1].isSharedWithAll = FALSE
  /\ res.read[1].participants = <<>>
  /\ Range(SplitParticipants(res.read[1], AllCurrentParticipants(res.read)))
       = {res.read[1].payerName}

\* C20: calculateSettlements returns no transfer exactly when the net balance
\* of every participant is 0, as for the empty expense list and for one expense
\* whose payer is the only member of its split group.
C20_EmptyIffBalanced ==
  SettlementReply =>
    /\ res.settlements = <<>> <=>
         \A name \in Range(AllCurrentParticipants(res.read)) : BalanceOf(res.read, name) = 0
    /\ Len(res.read) = 0 => res.settlements = <<>>
    /\ (/\ Len(res.read) = 1
        /\ Range(SplitParticipants(res.read[1], AllCurrentParticipants(res.read)))
             = {res.read[1].payerName}) => res.settlements = <<>>

\* two expenses that cancel out: C owes A one unit for the first and A owes C
\* one unit for the second
C20_Witness ==
  /\ SettlementReply
  /\ Len(res.read) = 2
  /\ res.settlements = <<>>
  /\ \E i \in 1..2 : res.read[i].payerName # res.read[3 - i].payerName
  /\ \E i \in 1..2 : /\ res.read[i].payerName = "A"
                        /\ ExpenseShare(res.read[i], AllCurrentParticipants(res.read), "C") > 0

\* C21: every transfer returned by calculateSettlements has a positive whole
\* amount, goes from a participant with a negative net balance to another
\* participant, who has a positive net balance, and nobody pays in one transfer
\* and receives in another.
C21_TransferShape ==
  SettlementReply =>
    /\ \A i \in 1..Len(res.settlements) :
         LET t == res.settlements[i]
         IN /\ t.amount \in Nat \ {0}
            /\ t.from # t.to
            /\ t.from \in Range(AllCurrentParticipants(res.read))
            /\ t.to \in Range(AllCurrentParticipants(res.read))
            /\ BalanceOf(res.read, t.from) < 0
            /\ BalanceOf(res.read, t.to) > 0
    /\ \A i, j \in 1..Len(res.settlements) : res.settlements[i].from # res.settlements[j].to

\* two debtors pay the same creditor
C21_Witness ==
  /\ SettlementReply
  /\ \E i, j \in 1..Len(res.settlements) :
       /\ res.settlements[i].from # res.settlements[j].from
       /\ res.settlements[i].to = res.settlements[j].to

\* the charge the share rule gives the k-th member of a split group of n
RuleShare(a, n, k) == (a \div n) + (IF k <= a % n THEN 1 ELSE 0)

\* C22: Share assignment. For every expense of amount a and split group list
\* of size n, the k-th member of the list is charged floor(a/n), plus one unit
\* when k <= a mod n, so that the shares of the expense add up to a (100 among
\* 3 gives 34, 33, 33); and the transfer list answered is the one the
\* function computes from the list it was given, in the same order.
C22_ShareAssignment ==
  /\ <<PersonShare(100, 3, 1), PersonShare(100, 3, 2), PersonShare(100, 3, 3)>> = <<34, 33, 33>>
  /\ SettlementReply =>
       /\ res.settlements = CalculateSettlements(res.read)
       /\ \A i \in 1..Len(res.read) :
            LET x == res.read[i]
                all == AllCurrentParticipants(res.read)
                split == SplitParticipants(x, all)
                a == ParseInt(x.amount)
            IN /\ \A k \in 1..Len(split) :
                    ExpenseShare(x, all, split[k]) = RuleShare(a, Len(split), k)
               /\ SumSeq([k \in 1..Len(all) |-> ExpenseShare(x, all, all[k])]) = a

\* 4 among the three names of the ledger gives 2, 1, 1 in the order in which
\* the names first appear
C22_Witness ==
  /\ SettlementReply
  /\ \E i \in 1..Len(res.read) :
       LET all == AllCurrentParticipants(res.read)
       IN /\ res.read[i].isSharedWithAll = TRUE
          /\ ParseInt(res.read[i].amount) = 4
          /\ Len(all) = 3
          /\ <<ExpenseShare(res.read[i], all, all[1]), ExpenseShare(res.read[i], all, all[2]),
               ExpenseShare(res.read[i], all, all[3])>> = <<2, 1, 1>>

\* the participant universe of a run: the payer and the members of every expense
Universe(list) ==
  {list[i].payerName : i \in 1..Len(list)}
  \cup UNION {Range(list[i].participants) : i \in 1..Len(list)}

\* the names an expense is to be divided among
GroupOf(x, list) == IF ExplicitRow(x) THEN Range(x.participants) ELSE Universe(list)

\* C23: Split-group selection. calculateSettlements divides an ExplicitShare
\* expense among its own listed members only, and a SharedWithAll expense or
\* an expense stored without members and flag among the whole universe of the
\* run; each expense is divided by the size of its own group.
C23_SplitGroupSelection ==
  SettlementReply =>
    \A i \in 1..Len(res.read) :
      LET x == res.read[i]
          all == AllCurrentParticipants(res.read)
          group == GroupOf(x, res.read)
          a == ParseInt(x.amount)
      IN /\ Range(all) = Universe(res.read)
         /\ \A name \in Universe(res.read) :
              IF name \in group
              THEN ExpenseShare(x, all, name) \in
                     {a \div Cardinality(group), (a \div Cardinality(group)) + 1}
              ELSE ExpenseShare(x, all, name) = 0

\* the example of the specification: an ExplicitShare expense of A and B next
\* to a SharedWithAll expense paid by C, divided by 2 and by 3
C23_Witness ==
  /\ SettlementReply
  /\ Len(res.read) = 2
  /\ \E i, j \in 1..2 :
       /\ ExplicitRow(res.read[i])
       /\ Range(res.read[i].participants) = {"A", "B"}
       /\ ExpenseShare(res.read[i], AllCurrentParticipants(res.read), "C") = 0
       /\ ExpenseShare(res.read[i], AllCurrentParticipants(res.read), "B")
            = ParseInt(res.read[i].amount) \div 2
       /\ res.read[j].isSharedWithAll = TRUE
       /\ res.read[j].payerName = "C"
       /\ Universe(res.read) = {"A", "B", "C"}
       /\ ExpenseShare(res.read[j], AllCurrentParticipants(res.read), "B") >= 1

\* C24: Order independence. For every list of valid expenses and every
\* permutation of it, calculateSettlements computes the same net balance for
\* each participant, also when a SharedWithAll expense leaves a remainder.
C24_OrderIndependent ==
  (SettlementReply /\ AllValid(res.read)) =>
    \A other \in Orders(Range(res.read)) :
      \A name \in Universe(res.read) :
        BalanceOf(other, name) = BalanceOf(res.read, name)

\* the largest amount left in a working list
Largest(queue) ==
  CHOOSE m \in {queue[i].amount : i \in 1..Len(queue)} :
    \A i \in 1..Len(queue) : queue[i].amount <= m

\* an iteration of the matching loop that made a transfer
Transferred == loop.pc = "while" /\ Len(loop'.settlements) = Len(loop.settlements) + 1

\* the loop returns what the function is taken to return everywhere else
LoopAgrees == loop.pc = "done" => loop.settlements = CalculateSettlements(loop.list)

\* C25: Greedy largest-first matching. At every step of the matching loop the
\* transfer goes from the debtor with the largest remaining debt to the
\* creditor with the largest remaining credit, for the smaller of the two
\* remaining amounts, also after a partial payment has lowered what remains for
\* the head of a list.
C25_GreedyLargestFirst ==
  [][Transferred =>
       LET t == loop'.settlements[Len(loop'.settlements)]
       IN /\ \E i \in 1..Len(loop.payers) :
               loop.payers[i].name = t.from /\ loop.payers[i].amount = Largest(loop.payers)
          /\ \E i \in 1..Len(loop.receivers) :
               loop.receivers[i].name = t.to /\ loop.receivers[i].amount = Largest(loop.receivers)
          /\ t.amount = IF Largest(loop.payers) <= Largest(loop.receivers)
                        THEN Largest(loop.payers) ELSE Largest(loop.receivers)]_vars

\* the debtors and creditors the run of the loop began with
Parties == Len(Payers(loop.list)) + Len(Receivers(loop.list))

\* C27: The matching loop terminates. Every iteration removes at least one
\* debtor or one creditor from the working lists, the branch that breaks on a
\* payment amount of zero is never reached, and a run that begins with at least
\* one debtor makes at most (debtors + creditors - 1) transfers.
C27_LoopTerminates ==
  /\ [](loop.pc # "break")
  /\ [](Parties > 0 => Len(loop.settlements) <= Parties - 1)
  /\ [][(loop.pc = "while" /\ loop'.pc = "while") =>
          /\ Len(loop'.settlements) = Len(loop.settlements) + 1
          /\ Len(loop'.payers) + Len(loop'.receivers)
               < Len(loop.payers) + Len(loop.receivers)]_vars

\* two debtors and two creditors settled in three transfers, the most allowed
C27_Witness ==
  /\ loop.pc = "done"
  /\ Len(Payers(loop.list)) = 2
  /\ Len(Receivers(loop.list)) = 2
  /\ Len(loop.settlements) = 3

NoDuplicates(list) == \A i, j \in 1..Len(list) : list[i] = list[j] => i = j

C28_NoLostUpdate ==
  (/\ AllDone
   /\ calls[1].op = "participant" /\ calls[2].op = "participant"
   /\ calls[1].name # calls[2].name
   /\ calls[1].status = 200 /\ calls[2].status = 200) =>
    \A x \in expenses :
      SharedRow(x) => {calls[1].name, calls[2].name} \subseteq Range(x.participants)

\* C29: addParticipant is all-or-nothing: when the call ends in an error, no
\* expense's member snapshot or flag was changed by it (the other handler in
\* flight only deletes, so every row still stored is a row stored at the start).
C29_AllOrNothing ==
  \A c \in DOMAIN calls :
    (/\ calls[c].op = "participant"
     /\ calls[c].status = 500
     /\ \A d \in DOMAIN calls \ {c} : calls[d].op = "deleteExpense") =>
      expenses \subseteq initial

\* C30: a participant added while the event has no SharedWithAll or legacy
\* expense is still part of the event afterwards: a SharedWithAll expense
\* recorded later (nothing deleted in between) has the participant in its
\* member snapshot.
C30_AddedStaysParticipant ==
  [][(/\ req'.op = "expense"
      /\ res'.status = 201
      /\ \A x \in EventExpenses(req'.eventId) : ~SharedRow(x)) =>
       \A x \in expenses' \ expenses :
         x.isSharedWithAll = TRUE =>
           \A n \in Names : <<req'.eventId, n>> \in added => n \in Range(x.participants)]_vars

====
